---- MODULE Spec2Model ----
(***************************************************************************)
(* Model of src/engine/python/graph.py: the Graph class (add_vertex,       *)
(* add_edge, dijkstra, get_shortest_path, bfs, dfs), haversine_distance    *)
(* and build_graph_from_locations; of the optimization job contract; and   *)
(* of the vehicle and telemetry handlers of src/api/routers over the       *)
(* tables of src/database/models.py.                                       *)
(*                                                                         *)
(* Weights are modelled as naturals (the code uses floats; rounding of     *)
(* float sums is not modelled).  float('inf') is the value Inf, absorbing  *)
(* under addition and greater than every finite distance.                  *)
(***************************************************************************)
EXTENDS Integers, Sequences, FiniteSets, TLC

(* ---- bounds of the model ---- *)
MaxNode == 2
MaxW == 1
MaxEdges == 3
MaxPoints == 3

Nodes == 0..MaxNode
Weights == 0..MaxW

(* float('inf') *)
Inf == 999999

VARIABLES
    V,          \* Graph.V
    adj,        \* Graph.adj: a defaultdict(list), here a function on its key set
    edges,      \* Graph.edges
    op,         \* name of the last method called on the graph
    args,       \* its arguments
    raised,     \* "" or the name of the exception the call raised
    ret_dist,   \* returned distance map (dijkstra, bfs)
    ret_path,   \* returned node list (get_shortest_path, dfs)
    ret_total,  \* returned total distance (get_shortest_path)
    enq_log,    \* history: the nodes bfs appended to its queue, in order
    again,      \* history: the last call was an add_vertex(v) directly after an add_vertex(v)
    vehicles,   \* table vehicles: the set of its rows
    telemetry,  \* table telemetry: its rows in insertion order
    routes,     \* table routes: its rows in insertion order
    resp,       \* the HTTP response of the last request
    jobs,       \* table optimization_jobs: job_id -> row
    removed,    \* history: how many telemetry rows and routes the last request deleted
    run         \* a solve in progress: the locals of dijkstra / get_shortest_path

vars == <<V, adj, edges, op, args, raised, ret_dist, ret_path, ret_total, enq_log, again,
          vehicles, telemetry, routes, resp, jobs, removed, run>>

(* the part of the state a whole call on the graph never touches *)
store_vars == <<vehicles, telemetry, routes, resp, jobs, removed, run>>

(* ---- helpers ---- *)
Max(a, b) == IF a >= b THEN a ELSE b

(* the empty dict *)
EmptyMap == [x \in {} |-> 0]

(* self.adj[u] on a defaultdict(list): a missing key is inserted with [] *)
Touch(a, u) == IF u \in DOMAIN a THEN a ELSE a @@ (u :> <<>>)

(* a graph object as a record *)
GraphOf(v, a, e) == [V |-> v, adj |-> a, edges |-> e]

(* Graph.__init__ *)
NewGraph(n) == GraphOf(n, EmptyMap, <<>>)

(* Graph.add_vertex with the guard of line 24 dropped: V = v + 1 always *)
add_vertex_reset(g, v) ==
    GraphOf(v + 1, IF v \in DOMAIN g.adj THEN g.adj ELSE g.adj @@ (v :> <<>>), g.edges)

(* Graph.add_vertex *)
add_vertex(g, v) ==
    LET v1 == IF v >= g.V THEN v + 1 ELSE g.V
        a1 == IF v \notin DOMAIN g.adj THEN g.adj @@ (v :> <<>>) ELSE g.adj
    IN  GraphOf(v1, a1, g.edges)

(* Graph.add_edge without line 35: the head of the edge is never added *)
add_edge_no_head(g, u, v, w) ==
    LET g1 == add_vertex(g, u)
        a1 == [g1.adj EXCEPT ![u] = Append(@, <<v, w>>)]
    IN  GraphOf(g1.V, a1, Append(g1.edges, <<u, v, w>>))

(* Graph.add_edge that also inserts the reverse adjacency entry *)
add_edge_undirected(g, u, v, w) ==
    LET g1 == add_vertex(g, u)
        g2 == add_vertex(g1, v)
        a1 == [g2.adj EXCEPT ![u] = Append(@, <<v, w>>)]
        a2 == [a1 EXCEPT ![v] = Append(@, <<u, w>>)]
    IN  GraphOf(g2.V, a2, Append(g2.edges, <<u, v, w>>))

(* Graph.add_edge *)
add_edge(g, u, v, w) ==
    LET g1 == add_vertex(g, u)
        g2 == add_vertex(g1, v)
        a1 == [g2.adj EXCEPT ![u] = Append(@, <<v, w>>)]
    IN  GraphOf(g2.V, a1, Append(g2.edges, <<u, v, w>>))

(* ---- arithmetic with float('inf') ---- *)
Plus(a, b) == IF a = Inf \/ b = Inf THEN Inf ELSE a + b

(* tuple comparison (d1, u1) < (d2, u2) as Python compares heap entries *)
EntryLess(e1, e2) == e1[1] < e2[1] \/ (e1[1] = e2[1] /\ e1[2] < e2[2])

(* heappop replaced by list.pop(0): the oldest entry, not the least *)
MinIndex_first(pq) == 1

(* index of the entry heapq.heappop returns: the least tuple of the heap *)
MinIndex(pq) ==
    CHOOSE i \in 1..Len(pq) :
        /\ \A j \in 1..Len(pq) : ~EntryLess(pq[j], pq[i])
        /\ \A j \in 1..(i - 1) : pq[j] /= pq[i]

RemoveAt(q, i) == SubSeq(q, 1, i - 1) \o SubSeq(q, i + 1, Len(q))

(* {i: float('inf') for i in range(self.V)}; dist[source] = 0 *)
InitDist(g, source) ==
    [i \in (0..(g.V - 1)) \cup {source} |-> IF i = source THEN 0 ELSE Inf]

(* ---- Graph.dijkstra ---- *)

(* lines 68-71 relaxing with the edge weight alone: dist[u] is not added *)
RECURSIVE dijkstra_relax_no_sum(_, _, _, _)
dijkstra_relax_no_sum(st, u, nbrs, k) ==
    IF k > Len(nbrs) THEN st
    ELSE LET v == nbrs[k][1]
             weight == nbrs[k][2]
         IN  IF weight < st.dist[v]
             THEN dijkstra_relax_no_sum([st EXCEPT !.dist[v] = weight,
                                                   !.pq = Append(@, <<weight, v>>)],
                                        u, nbrs, k + 1)
             ELSE dijkstra_relax_no_sum(st, u, nbrs, k + 1)

(* lines 68-71: the relaxation of the edges of u, from the k-th on *)
RECURSIVE dijkstra_relax(_, _, _, _)
dijkstra_relax(st, u, nbrs, k) ==
    IF k > Len(nbrs) THEN st
    ELSE LET v == nbrs[k][1]
             weight == nbrs[k][2]
             nd == Plus(st.dist[u], weight)
         IN  IF nd < st.dist[v]
             THEN dijkstra_relax([st EXCEPT !.dist[v] = nd,
                                            !.pq = Append(@, <<nd, v>>)],
                                 u, nbrs, k + 1)
             ELSE dijkstra_relax(st, u, nbrs, k + 1)

(* lines 60-71 without the test of line 62: a stale entry is relaxed again *)
dijkstra_visit_no_skip(st, i) ==
    LET u == st.pq[i][2]
        popped == [st EXCEPT !.pq = RemoveAt(@, i)]
        a1 == Touch(st.adj, u)
    IN  dijkstra_relax([popped EXCEPT !.visited = @ \cup {u}, !.adj = a1,
                                      !.scanned = Append(@, u)],
                       u, a1[u], 1)

(* lines 60-71: one iteration of the while loop, the pop taking entry i *)
dijkstra_visit(st, i) ==
    LET u == st.pq[i][2]
        popped == [st EXCEPT !.pq = RemoveAt(@, i)]
    IN  IF u \in st.visited
        THEN popped
        ELSE LET a1 == Touch(st.adj, u)
             IN  dijkstra_relax([popped EXCEPT !.visited = @ \cup {u}, !.adj = a1,
                                               !.scanned = Append(@, u)],
                                u, a1[u], 1)

(* lines 60-71: one iteration of the while loop *)
dijkstra_iter(st) == dijkstra_visit(st, MinIndex(st.pq))

RECURSIVE dijkstra_loop(_)
dijkstra_loop(st) ==
    IF st.pq = <<>> THEN st ELSE dijkstra_loop(dijkstra_iter(st))

(* lines 52-57: the state before the while loop; scanned is history: the
   nodes whose adjacency list the for loop of line 68 has gone through *)
dijkstra_start(g, source) ==
    [dist |-> InitDist(g, source), pq |-> <<<<0, source>>>>, visited |-> {}, adj |-> g.adj,
     scanned |-> <<>>]

(* Graph.dijkstra: the returned map, and the adjacency dict after the call *)
dijkstra(g, source) ==
    LET fin == dijkstra_loop(dijkstra_start(g, source))
    IN  [raised |-> "", dist |-> fin.dist, adj |-> fin.adj]

(* ---- Graph.get_shortest_path ---- *)

(* Python's None as a parent pointer: no node is negative *)
None == -1

(* lines 104-108 setting the parent only the first time a node is reached *)
RECURSIVE gsp_relax_first_parent(_, _, _, _)
gsp_relax_first_parent(st, u, nbrs, k) ==
    IF k > Len(nbrs) THEN st
    ELSE LET v == nbrs[k][1]
             weight == nbrs[k][2]
             nd == Plus(st.dist[u], weight)
         IN  IF nd < st.dist[v]
             THEN gsp_relax_first_parent(
                      [st EXCEPT !.dist[v] = nd,
                                 !.parent[v] = IF @ = -1 THEN u ELSE @,
                                 !.pq = Append(@, <<nd, v>>)],
                      u, nbrs, k + 1)
             ELSE gsp_relax_first_parent(st, u, nbrs, k + 1)

(* lines 104-108 with <= in the test of line 105: an equal distance also
   replaces the parent *)
RECURSIVE gsp_relax_le(_, _, _, _)
gsp_relax_le(st, u, nbrs, k) ==
    IF k > Len(nbrs) THEN st
    ELSE LET v == nbrs[k][1]
             weight == nbrs[k][2]
             nd == Plus(st.dist[u], weight)
         IN  IF nd <= st.dist[v] /\ nd < Inf
             THEN gsp_relax_le([st EXCEPT !.dist[v] = nd,
                                          !.parent[v] = u,
                                          !.pq = Append(@, <<nd, v>>)],
                               u, nbrs, k + 1)
             ELSE gsp_relax_le(st, u, nbrs, k + 1)

(* lines 104-108: the relaxation of the edges of u, from the k-th on *)
RECURSIVE gsp_relax(_, _, _, _)
gsp_relax(st, u, nbrs, k) ==
    IF k > Len(nbrs) THEN st
    ELSE LET v == nbrs[k][1]
             weight == nbrs[k][2]
             nd == Plus(st.dist[u], weight)
         IN  IF nd < st.dist[v]
             THEN gsp_relax([st EXCEPT !.dist[v] = nd,
                                       !.parent[v] = u,
                                       !.pq = Append(@, <<nd, v>>)],
                            u, nbrs, k + 1)
             ELSE gsp_relax(st, u, nbrs, k + 1)

(* lines 94-108 leaving the loop as soon as the target has a finite distance,
   not when it is popped *)
gsp_iter_break_on_reach(st, target) ==
    LET i == MinIndex(st.pq)
        u == st.pq[i][2]
        popped == [st EXCEPT !.pq = RemoveAt(@, i)]
    IN  IF u = target \/ (target \in DOMAIN st.dist /\ st.dist[target] < Inf)
        THEN [popped EXCEPT !.done = TRUE]
        ELSE IF u \in st.visited
        THEN popped
        ELSE LET a1 == Touch(st.adj, u)
             IN  gsp_relax([popped EXCEPT !.visited = @ \cup {u}, !.adj = a1],
                           u, a1[u], 1)

(* lines 94-108: one iteration of the while loop, the pop taking entry i;
   done is the break *)
gsp_visit(st, target, i) ==
    LET u == st.pq[i][2]
        popped == [st EXCEPT !.pq = RemoveAt(@, i)]
    IN  IF u = target
        THEN [popped EXCEPT !.done = TRUE]
        ELSE IF u \in st.visited
        THEN popped
        ELSE LET a1 == Touch(st.adj, u)
             IN  gsp_relax([popped EXCEPT !.visited = @ \cup {u}, !.adj = a1],
                           u, a1[u], 1)

(* lines 94-108: one iteration of the while loop *)
gsp_iter(st, target) == gsp_visit(st, target, MinIndex(st.pq))

RECURSIVE gsp_loop(_, _)
gsp_loop(st, target) ==
    IF st.pq = <<>> \/ st.done THEN st ELSE gsp_loop(gsp_iter(st, target), target)

(* lines 86-91: the state before the while loop *)
gsp_start(g, source) ==
    [dist |-> InitDist(g, source),
     parent |-> [i \in 0..(g.V - 1) |-> None],
     pq |-> <<<<0, source>>>>, visited |-> {}, adj |-> g.adj, done |-> FALSE]

(* lines 114-118: the walk along the parent pointers, path in append order.
   outcome is "ok", "KeyError" (parent has no entry for current) or "loop"
   (a node repeats: the while loop of line 116 never ends). *)
RECURSIVE gsp_walk(_, _, _)
gsp_walk(parent, current, path) ==
    IF current = None THEN [outcome |-> "ok", path |-> path]
    ELSE IF \E k \in 1..Len(path) : path[k] = current
    THEN [outcome |-> "loop", path |-> path]
    ELSE IF current \notin DOMAIN parent
    THEN [outcome |-> "KeyError", path |-> Append(path, current)]
    ELSE gsp_walk(parent, parent[current], Append(path, current))

(* line 119 dropped: the path stays in walk order, target first *)
Reverse_none(q) == q

(* list.reverse *)
Reverse(q) == [k \in 1..Len(q) |-> q[Len(q) + 1 - k]]

(* Graph.get_shortest_path testing parent[target] is None in place of line 111 *)
get_shortest_path_parent_test(g, source, target) ==
    LET fin == gsp_loop(gsp_start(g, source), target)
    IN  IF target \notin DOMAIN fin.parent
        THEN [raised |-> "KeyError", path |-> <<>>, total |-> 0, adj |-> fin.adj]
        ELSE IF fin.parent[target] = -1
        THEN [raised |-> "", path |-> <<>>, total |-> Inf, adj |-> fin.adj]
        ELSE LET w == gsp_walk(fin.parent, target, <<>>)
             IN  IF w.outcome = "ok"
                 THEN [raised |-> "", path |-> Reverse(w.path),
                       total |-> fin.dist[target], adj |-> fin.adj]
                 ELSE [raised |-> w.outcome, path |-> <<>>, total |-> 0, adj |-> fin.adj]

(* lines 110-121: the reconstruction, given the locals after the loop *)
gsp_return(fin, target) ==
    IF target \notin DOMAIN fin.dist
    THEN [raised |-> "KeyError", path |-> <<>>, total |-> 0, adj |-> fin.adj]
    ELSE IF fin.dist[target] = Inf
    THEN [raised |-> "", path |-> <<>>, total |-> Inf, adj |-> fin.adj]
    ELSE LET w == gsp_walk(fin.parent, target, <<>>)
         IN  IF w.outcome = "ok"
             THEN [raised |-> "", path |-> Reverse(w.path),
                   total |-> fin.dist[target], adj |-> fin.adj]
             ELSE [raised |-> w.outcome, path |-> <<>>, total |-> 0, adj |-> fin.adj]

(* Graph.get_shortest_path: the returned pair or the exception raised, and the
   adjacency dict after the call *)
get_shortest_path(g, source, target) ==
    gsp_return(gsp_loop(gsp_start(g, source), target), target)

(* ---- Graph.bfs ---- *)

(* lines 140-144 recording dist in place of dist + 1 at line 143 *)
RECURSIVE bfs_scan_same_level(_, _, _, _)
bfs_scan_same_level(st, nbrs, d, k) ==
    IF k > Len(nbrs) THEN st
    ELSE LET v == nbrs[k][1]
         IN  IF v \notin st.visited
             THEN bfs_scan_same_level([st EXCEPT !.visited = @ \cup {v},
                                                 !.distances = @ @@ (v :> d),
                                                 !.queue = Append(@, <<v, d + 1>>),
                                                 !.enq = Append(@, v)],
                                      nbrs, d, k + 1)
             ELSE bfs_scan_same_level(st, nbrs, d, k + 1)

(* lines 140-144: the scan of the edges of u, from the k-th on.  enq logs every
   node appended to the queue. *)
RECURSIVE bfs_scan(_, _, _, _)
bfs_scan(st, nbrs, d, k) ==
    IF k > Len(nbrs) THEN st
    ELSE LET v == nbrs[k][1]
         IN  IF v \notin st.visited
             THEN bfs_scan([st EXCEPT !.visited = @ \cup {v},
                                      !.distances = @ @@ (v :> d + 1),
                                      !.queue = Append(@, <<v, d + 1>>),
                                      !.enq = Append(@, v)],
                           nbrs, d, k + 1)
             ELSE bfs_scan(st, nbrs, d, k + 1)

(* lines 138-144: one iteration of the while loop *)
bfs_iter(st) ==
    LET u == Head(st.queue)[1]
        d == Head(st.queue)[2]
        a1 == Touch(st.adj, u)
    IN  bfs_scan([st EXCEPT !.queue = Tail(@), !.adj = a1], a1[u], d, 1)

RECURSIVE bfs_loop(_)
bfs_loop(st) ==
    IF st.queue = <<>> THEN st ELSE bfs_loop(bfs_iter(st))

(* lines 133-135: the state before the while loop *)
bfs_start(g, source) ==
    [visited |-> {source}, queue |-> <<<<source, 0>>>>, distances |-> (source :> 0),
     adj |-> g.adj, enq |-> <<source>>]

(* Graph.bfs: the returned map, the adjacency dict after the call, and the log
   of the nodes that entered the queue *)
bfs(g, source) ==
    LET fin == bfs_loop(bfs_start(g, source))
    IN  [raised |-> "", dist |-> fin.distances, adj |-> fin.adj, enq |-> fin.enq]

(* ---- Graph.dfs ---- *)

(* Line 165 iterates self.adj[u], but dfs has no local u (its parameter is
   source) and the module defines no global u when it is imported: evaluating
   the name raises NameError before any neighbour is looked at.  Line 162-163
   have only touched the locals visited and traversal. *)
dfs(g, source) ==
    [raised |-> "NameError", path |-> <<>>, adj |-> g.adj]

(* ---- haversine_distance ---- *)

(* The coordinates of the model are the multiples of 90 degrees, on which the
   trigonometric terms of the formula are exact: sin^2 and cos take the values
   0, 1/2 and 1 (the rounding of the float computation is not modelled). *)
Lats == {0, 90}
Lons == {-90, 0, 180}
Points == [lat : Lats, lon : Lons]

(* 2 * math.sin(d/2)**2 for d a multiple of 90 degrees *)
TwoSinSqHalf(d) ==
    CASE d % 360 = 0 -> 0
      [] d % 360 = 90 -> 1
      [] d % 360 = 180 -> 2
      [] d % 360 = 270 -> 1

(* math.cos(l) for l a multiple of 90 degrees *)
CosDeg(l) ==
    CASE l % 360 = 0 -> 1
      [] l % 360 = 90 -> 0
      [] l % 360 = 180 -> -1
      [] l % 360 = 270 -> 0

(* c = 2 * math.asin(math.sqrt(a)) in quarter turns (pi/2), given 2a:
   a = 0 -> 0, a = 1/2 -> pi/2, a = 1 -> pi *)
QuarterTurns(a2) ==
    CASE a2 = 0 -> 0
      [] a2 = 1 -> 1
      [] a2 = 2 -> 2

(* haversine_distance, in whole kilometres: c * r with r = 6371 and pi taken
   as 355/113 *)
haversine_distance(lat1, lon1, lat2, lon2) ==
    LET dlat == lat2 - lat1
        dlon == lon2 - lon1
        a2 == TwoSinSqHalf(dlat) + CosDeg(lat1) * CosDeg(lat2) * TwoSinSqHalf(dlon)
        c == QuarterTurns(a2)
    IN  (c * 355 * 6371) \div (2 * 113)

(* ---- build_graph_from_locations ---- *)

(* lines 212-224 without line 224: only the edge (i, j) is added *)
RECURSIVE build_loop_one_way(_, _, _, _)
build_loop_one_way(g, locations, i, j) ==
    LET n == Len(locations)
    IN  IF i >= n THEN g
        ELSE IF j >= n THEN build_loop_one_way(g, locations, i + 1, i + 2)
        ELSE LET loc1 == locations[i + 1]
                 loc2 == locations[j + 1]
                 distance == haversine_distance(loc1.lat, loc1.lon, loc2.lat, loc2.lon)
             IN  build_loop_one_way(add_edge(g, i, j, distance), locations, i, j + 1)

(* lines 212-224: the two nested loops, from the pair (i, j) on; locations is
   1-indexed here, so locations[i] of the code is locations[i + 1] *)
RECURSIVE build_loop(_, _, _, _)
build_loop(g, locations, i, j) ==
    LET n == Len(locations)
    IN  IF i >= n THEN g
        ELSE IF j >= n THEN build_loop(g, locations, i + 1, i + 2)
        ELSE LET loc1 == locations[i + 1]
                 loc2 == locations[j + 1]
                 distance == haversine_distance(loc1.lat, loc1.lon, loc2.lat, loc2.lon)
             IN  build_loop(add_edge(add_edge(g, i, j, distance), j, i, distance),
                            locations, i, j + 1)

(* build_graph_from_locations creating Graph(n + 1) at line 210 *)
build_graph_from_locations_one_more(locations) ==
    build_loop(NewGraph(Len(locations) + 1), locations, 0, 1)

(* build_graph_from_locations *)
build_graph_from_locations(locations) ==
    build_loop(NewGraph(Len(locations)), locations, 0, 1)

G == GraphOf(V, adj, edges)

SetGraph(g) ==
    /\ V' = g.V
    /\ adj' = g.adj
    /\ edges' = g.edges

NoReturn ==
    /\ raised' = ""
    /\ ret_dist' = EmptyMap
    /\ ret_path' = <<>>
    /\ ret_total' = 0
    /\ enq_log' = <<>>

(* no solve is in progress *)
NoRun == [kind |-> "idle"]

(* no request has been answered yet *)
NoResponse == [code |-> 0, detail |-> <<>>, body |-> <<>>]

(* the tables right after init_db: create_all makes them empty *)
StoreInit ==
    /\ vehicles = {}
    /\ telemetry = <<>>
    /\ routes = <<>>
    /\ resp = NoResponse
    /\ jobs = EmptyMap
    /\ removed = <<0, 0>>
    /\ run = NoRun

(* ---- the state after Graph(n) ---- *)
Init ==
    /\ \E n \in 0..(MaxNode + 1) : V = n
    /\ adj = EmptyMap
    /\ edges = <<>>
    /\ op = "__init__"
    /\ args = <<>>
    /\ raised = ""
    /\ ret_dist = EmptyMap
    /\ ret_path = <<>>
    /\ ret_total = 0
    /\ enq_log = <<>>
    /\ again = FALSE
    /\ StoreInit

AddVertex ==
    \E v \in Nodes :
        /\ SetGraph(add_vertex(G, v))
        /\ op' = "add_vertex"
        /\ args' = <<v>>
        /\ again' = (op = "add_vertex" /\ args = <<v>>)
        /\ NoReturn
        /\ UNCHANGED store_vars

AddEdge ==
    /\ Len(edges) < MaxEdges
    /\ \E u \in Nodes, v \in Nodes, w \in Weights :
        /\ SetGraph(add_edge(G, u, v, w))
        /\ op' = "add_edge"
        /\ args' = <<u, v, w>>
        /\ again' = FALSE
        /\ NoReturn
        /\ UNCHANGED store_vars

Next ==
    \/ AddVertex
    \/ AddEdge

Spec == Init /\ [][Next]_vars

(* ---- solving on a graph built by Graph(n) and add_edge calls ---- *)

Dijkstra ==
    \E s \in Nodes :
        LET r == dijkstra(G, s)
        IN  /\ adj' = r.adj
            /\ op' = "dijkstra"
            /\ args' = <<s>>
            /\ again' = FALSE
            /\ raised' = r.raised
            /\ ret_dist' = r.dist
            /\ ret_path' = <<>>
            /\ ret_total' = 0
            /\ enq_log' = <<>>
            /\ UNCHANGED <<V, edges>>
            /\ UNCHANGED store_vars

GetShortestPath ==
    \E s \in Nodes, t \in Nodes :
        LET r == get_shortest_path(G, s, t)
        IN  /\ adj' = r.adj
            /\ op' = "get_shortest_path"
            /\ args' = <<s, t>>
            /\ again' = FALSE
            /\ raised' = r.raised
            /\ ret_dist' = EmptyMap
            /\ ret_path' = r.path
            /\ ret_total' = r.total
            /\ enq_log' = <<>>
            /\ UNCHANGED <<V, edges>>
            /\ UNCHANGED store_vars

Bfs ==
    \E s \in Nodes :
        LET r == bfs(G, s)
        IN  /\ adj' = r.adj
            /\ op' = "bfs"
            /\ args' = <<s>>
            /\ again' = FALSE
            /\ raised' = r.raised
            /\ ret_dist' = r.dist
            /\ ret_path' = <<>>
            /\ ret_total' = 0
            /\ enq_log' = r.enq
            /\ UNCHANGED <<V, edges>>
            /\ UNCHANGED store_vars

Dfs ==
    \E s \in Nodes :
        LET r == dfs(G, s)
        IN  /\ adj' = r.adj
            /\ op' = "dfs"
            /\ args' = <<s>>
            /\ again' = FALSE
            /\ raised' = r.raised
            /\ ret_dist' = EmptyMap
            /\ ret_path' = r.path
            /\ ret_total' = 0
            /\ enq_log' = <<>>
            /\ UNCHANGED <<V, edges>>
            /\ UNCHANGED store_vars

NextSolve ==
    \/ AddEdge
    \/ Dijkstra
    \/ GetShortestPath
    \/ Bfs
    \/ Dfs

SpecSolve == Init /\ [][NextSolve]_vars

(* ======================================================================= *)
(* Properties of the construction operations (specification Spec)          *)
(* ======================================================================= *)

InRange(g, x) == x \in 0..(g.V - 1)

(* C6: every node referenced by an edge of the edge list lies in [0, V) and
   has an adjacency entry, after any sequence of add_vertex / add_edge. *)
C6_EdgeNodesExist ==
    \A k \in 1..Len(edges) :
        /\ InRange(G, edges[k][1]) /\ edges[k][1] \in DOMAIN adj
        /\ InRange(G, edges[k][2]) /\ edges[k][2] \in DOMAIN adj

(* an add_edge on Graph(0) that named node MaxNode made V grow past it *)
C6_Witness ==
    /\ op = "add_edge"
    /\ \E k \in 1..Len(edges) : edges[k][2] = MaxNode /\ edges[k][1] < edges[k][2]
    /\ V = MaxNode + 1

(* C7: add_vertex(v) makes v exist and sets V to max(previous V, v+1); an
   add_vertex(v) that directly follows an add_vertex(v) changes neither V, the
   adjacency mapping nor the edge list; no step lowers V. *)
C7_Step ==
    /\ V' >= V
    /\ op' = "add_vertex" =>
        LET v == args'[1]
        IN  /\ v \in DOMAIN adj'
            /\ V' = Max(V, v + 1)
            /\ edges' = edges
            /\ (op = "add_vertex" /\ args = args') => UNCHANGED <<V, adj, edges>>

C7_AddVertexIdempotent == [][C7_Step]_vars

(* add_vertex(v) was called twice in a row on a graph that has edges, for a v
   below V *)
C7_Witness ==
    /\ op = "add_vertex"
    /\ again
    /\ args[1] + 1 < V
    /\ edges /= <<>>
    /\ adj[args[1]] /= <<>>

Count(q, x) == Cardinality({k \in 1..Len(q) : q[k] = x})

AdjOf(a, x) == IF x \in DOMAIN a THEN a[x] ELSE <<>>

(* the edge list and the adjacency lists hold the same multiset of edges *)
SameMultiset(a, es) ==
    /\ \A e \in Nodes \X Nodes \X Weights :
            Count(es, e) = Count(AdjOf(a, e[1]), <<e[2], e[3]>>)
    /\ \A x \in DOMAIN a : \A k \in 1..Len(a[x]) :
            <<x, a[x][k][1], a[x][k][2]>> \in Nodes \X Nodes \X Weights

(* C8: add_edge(u, v, w) appends (v, w) to the end of u's adjacency sequence
   and (u, v, w) to the end of the edge list, creates u and v, and changes no
   other adjacency entry (in particular not v's); after every step the edge
   list and the adjacency lists hold the same multiset of directed edges. *)
C8_Step ==
    /\ SameMultiset(adj', edges')
    /\ op' = "add_edge" =>
        LET u == args'[1]
            v == args'[2]
            w == args'[3]
        IN  /\ edges' = Append(edges, <<u, v, w>>)
            /\ DOMAIN adj' = DOMAIN adj \cup {u, v}
            /\ adj'[u] = Append(AdjOf(adj, u), <<v, w>>)
            /\ \A x \in DOMAIN adj' \ {u} : adj'[x] = AdjOf(adj, x)
            /\ V' = Max(V, Max(u, v) + 1)

C8_AddEdgeFrame == [][C8_Step]_vars

(* an add_edge(u, v, w) with u /= v was applied to a graph in which v already
   had outgoing edges *)
C8_Witness ==
    /\ op = "add_edge"
    /\ args[1] /= args[2]
    /\ adj[args[2]] /= <<>>
    /\ Len(edges) = MaxEdges

(* ======================================================================= *)
(* Properties of the solver and the traversals (specification SpecSolve)   *)
(* ======================================================================= *)

EdgeSet == {edges[k] : k \in 1..Len(edges)}

(* nodes reachable from the set S by directed edges of the edge list *)
RECURSIVE Closure(_)
Closure(S) ==
    LET S1 == S \cup {e[2] : e \in {f \in EdgeSet : f[1] \in S}}
    IN  IF S1 = S THEN S ELSE Closure(S1)

Reach(s) == Closure({s})

MinOf(S) == CHOOSE x \in S : \A y \in S : x <= y

(* least total weight of a directed path from s with at most k edges *)
RECURSIVE PathDist(_, _, _)
PathDist(s, D, k) ==
    IF k = 0 THEN [v \in D |-> IF v = s THEN 0 ELSE Inf]
    ELSE LET p == PathDist(s, D, k - 1)
         IN  [v \in D |->
                MinOf({p[v]} \cup {Plus(p[e[1]], e[3]) : e \in {f \in EdgeSet : f[2] = v}})]

(* least total weight of a directed path from s to each node of [0, V): with
   weights >= 0 a lightest path needs no node twice, so at most V - 1 edges *)
ShortestDist(s) == PathDist(s, 0..(V - 1), V)

SourceInRange == Len(args) >= 1 /\ args[1] \in 0..(V - 1)

(* C1: for a source s in [0, V), dijkstra(s) returns a map whose keys are the
   nodes of [0, V), with dist[s] = 0, dist[v] the least total weight of a
   directed path from s to v when one exists, and infinity when none exists. *)
C1_DijkstraCorrect ==
    (op = "dijkstra" /\ SourceInRange) =>
        LET s == args[1]
        IN  /\ raised = ""
            /\ DOMAIN ret_dist = 0..(V - 1)
            /\ ret_dist[s] = 0
            /\ \A v \in 0..(V - 1) :
                /\ ret_dist[v] = ShortestDist(s)[v]
                /\ (ret_dist[v] = Inf) <=> (v \notin Reach(s))

(* the edges from x to y *)
Direct(x, y) == {e \in EdgeSet : e[1] = x /\ e[2] = y}

(* dijkstra returned, for another node that has direct edges from the source,
   a distance lower than the weight of each of them *)
C1_Witness ==
    /\ op = "dijkstra" /\ SourceInRange
    /\ \E v \in DOMAIN ret_dist \ {args[1]} :
        /\ Direct(args[1], v) /= {}
        /\ \A e \in Direct(args[1], v) : ret_dist[v] < e[3]

TargetInRange == Len(args) >= 2 /\ args[2] \in 0..(V - 1)

(* C2: for source and target in [0, V) with the target reachable, the total
   distance get_shortest_path(s, v) returns equals dijkstra(s)[v]. *)
C2_PathDistEqualsDijkstra ==
    (op = "get_shortest_path" /\ SourceInRange /\ TargetInRange
        /\ args[2] \in Reach(args[1])) =>
        /\ raised = ""
        /\ ret_total = dijkstra(G, args[1]).dist[args[2]]

(* get_shortest_path stopped at a target, other than the source, whose
   distance had been lowered after it was first reached: every direct edge from
   the source is heavier than the distance returned *)
C2_Witness ==
    /\ op = "get_shortest_path" /\ SourceInRange /\ TargetInRange
    /\ raised = "" /\ args[1] /= args[2]
    /\ Direct(args[1], args[2]) /= {}
    /\ \A e \in Direct(args[1], args[2]) : ret_total < e[3]

(* the total weights of the ways to follow the node sequence p from its k-th
   node on along edges of the edge list *)
RECURSIVE WalkWeights(_, _)
WalkWeights(p, k) ==
    IF k >= Len(p) THEN {0}
    ELSE {e[3] + r : e \in {f \in EdgeSet : f[1] = p[k] /\ f[2] = p[k + 1]},
                     r \in WalkWeights(p, k + 1)}

(* C3: for a reachable target the returned path starts at the source, ends at
   the target, each consecutive pair of it is an edge of the graph, and the
   weights of those edges add up to the returned total distance. *)
C3_PathIsValid ==
    (op = "get_shortest_path" /\ SourceInRange /\ TargetInRange
        /\ args[2] \in Reach(args[1])) =>
        /\ raised = ""
        /\ Len(ret_path) >= 1
        /\ ret_path[1] = args[1]
        /\ ret_path[Len(ret_path)] = args[2]
        /\ \A k \in 1..(Len(ret_path) - 1) :
                \E e \in EdgeSet : e[1] = ret_path[k] /\ e[2] = ret_path[k + 1]
        /\ ret_total \in WalkWeights(ret_path, 1)

(* a path of three nodes was returned although the graph has a direct edge
   from the source to the target *)
C3_Witness ==
    /\ op = "get_shortest_path" /\ raised = ""
    /\ Len(ret_path) = 3
    /\ \E e \in EdgeSet : e[1] = args[1] /\ e[2] = args[2]

(* C4: for source and target in [0, V), get_shortest_path raises nothing, its
   path is empty exactly when the target is unreachable from the source, an
   empty path comes with infinite distance, and dijkstra maps an unreachable
   target to infinity; a reachable target (the source itself included) gives a
   non-empty path. *)
C4_EmptyIffUnreachable ==
    (op = "get_shortest_path" /\ SourceInRange /\ TargetInRange) =>
        /\ raised = ""
        /\ (ret_path = <<>>) <=> (args[2] \notin Reach(args[1]))
        /\ (ret_path = <<>>) => ret_total = Inf
        /\ (args[2] \notin Reach(args[1])) => dijkstra(G, args[1]).dist[args[2]] = Inf
        /\ (args[1] = args[2]) => ret_path = <<args[1]>>

(* an empty path was returned for a target that has an edge to the source, on
   a graph in which the source has an edge to a third node *)
C4_Witness ==
    /\ op = "get_shortest_path" /\ SourceInRange /\ TargetInRange
    /\ ret_path = <<>> /\ ret_total = Inf
    /\ \E e \in EdgeSet : e[1] = args[2] /\ e[2] = args[1]
    /\ \E e \in EdgeSet : e[1] = args[1] /\ e[2] \notin {args[1], args[2]}

(* least number of edges of a directed path from s, over the nodes D, paths of
   at most k edges *)
RECURSIVE HopDist(_, _, _)
HopDist(s, D, k) ==
    IF k = 0 THEN [v \in D |-> IF v = s THEN 0 ELSE Inf]
    ELSE LET p == HopDist(s, D, k - 1)
         IN  [v \in D |->
                MinOf({p[v]} \cup {Plus(p[e[1]], 1) :
                                       e \in {f \in EdgeSet : f[2] = v /\ f[1] \in D}})]

NoRepeat(q) == \A i \in 1..Len(q) : \A j \in 1..Len(q) : q[i] = q[j] => i = j

(* C9: bfs(source) returns a map whose keys are exactly the nodes reachable
   from source by directed edges, each mapped to the least number of edges of
   a path from source (source to 0, weights ignored), and no node enters the
   queue more than once. *)
C9_BfsHopCounts ==
    (op = "bfs") =>
        LET s == args[1]
            R == Reach(s)
        IN  /\ raised = ""
            /\ DOMAIN ret_dist = R
            /\ ret_dist[s] = 0
            /\ \A v \in R : ret_dist[v] = HopDist(s, R, Cardinality(R))[v]
            /\ NoRepeat(enq_log)
            /\ {enq_log[k] : k \in 1..Len(enq_log)} = R

(* bfs ran on a graph with a cycle through the source and reached a node at
   two hops *)
C9_Witness ==
    /\ op = "bfs"
    /\ \E v \in DOMAIN ret_dist : ret_dist[v] = 2
    /\ \E e \in EdgeSet : e[2] = args[1] /\ e[1] /= e[2]

(* depth-first pre-order from the nodes on the stack todo (top first), given
   the nodes already emitted: the neighbours of a node are pushed so that the
   first-listed one is explored first *)
RECURSIVE PreOrder(_, _)
PreOrder(todo, order) ==
    IF todo = <<>> THEN order
    ELSE LET u == Head(todo)
         IN  IF \E k \in 1..Len(order) : order[k] = u
             THEN PreOrder(Tail(todo), order)
             ELSE PreOrder([k \in 1..Len(AdjOf(adj, u)) |-> AdjOf(adj, u)[k][1]]
                               \o Tail(todo),
                           Append(order, u))

(* C10: dfs(source) returns the nodes reachable from source in depth-first
   pre-order starting with source, each once, the neighbours of a node being
   explored in adjacency-list order. *)
C10_DfsPreOrder ==
    (op = "dfs") =>
        /\ raised = ""
        /\ ret_path = PreOrder(<<args[1]>>, <<>>)

SolveOps == {"dijkstra", "get_shortest_path", "bfs"}

(* C11: a call of dijkstra, get_shortest_path or bfs leaves V, the adjacency
   mapping (its set of keys included) and the edge list as they were before
   the call. *)
C11_SolveReadOnly ==
    [][(op' \in SolveOps) => (V' = V /\ adj' = adj /\ edges' = edges)]_vars

(* ======================================================================= *)
(* The sample road network of the module's main block (SpecSample)         *)
(* ======================================================================= *)

(* g = Graph(6) *)
SampleSize == 6

(* the list edges of the main block, in the order the loop adds them *)
SampleEdges ==
    << <<0, 1, 10>>, <<0, 2, 5>>, <<1, 3, 1>>, <<2, 1, 3>>,
       <<2, 3, 9>>, <<3, 4, 2>>, <<1, 4, 7>>, <<4, 5, 4>> >>

SampleNodes == 0..(SampleSize - 1)

InitSample ==
    /\ V = SampleSize
    /\ adj = EmptyMap
    /\ edges = <<>>
    /\ op = "__init__"
    /\ args = <<>>
    /\ raised = ""
    /\ ret_dist = EmptyMap
    /\ ret_path = <<>>
    /\ ret_total = 0
    /\ enq_log = <<>>
    /\ again = FALSE
    /\ StoreInit

(* one turn of the loop "for u, v, w in edges: g.add_edge(u, v, w)" *)
SampleAddEdge ==
    /\ Len(edges) < Len(SampleEdges)
    /\ LET e == SampleEdges[Len(edges) + 1]
       IN  /\ SetGraph(add_edge(G, e[1], e[2], e[3]))
           /\ op' = "add_edge"
           /\ args' = e
           /\ again' = FALSE
           /\ NoReturn
           /\ UNCHANGED store_vars

SampleDijkstra ==
    \E s \in SampleNodes :
        LET r == dijkstra(G, s)
        IN  /\ adj' = r.adj
            /\ op' = "dijkstra"
            /\ args' = <<s>>
            /\ again' = FALSE
            /\ raised' = r.raised
            /\ ret_dist' = r.dist
            /\ ret_path' = <<>>
            /\ ret_total' = 0
            /\ enq_log' = <<>>
            /\ UNCHANGED <<V, edges>>
            /\ UNCHANGED store_vars

SampleGetShortestPath ==
    \E s \in SampleNodes, t \in SampleNodes :
        LET r == get_shortest_path(G, s, t)
        IN  /\ adj' = r.adj
            /\ op' = "get_shortest_path"
            /\ args' = <<s, t>>
            /\ again' = FALSE
            /\ raised' = r.raised
            /\ ret_dist' = EmptyMap
            /\ ret_path' = r.path
            /\ ret_total' = r.total
            /\ enq_log' = <<>>
            /\ UNCHANGED <<V, edges>>
            /\ UNCHANGED store_vars

NextSample ==
    \/ SampleAddEdge
    \/ SampleDijkstra
    \/ SampleGetShortestPath

SpecSample == InitSample /\ [][NextSample]_vars

SampleBuilt == V = SampleSize /\ edges = SampleEdges

(* C12: on the sample graph, dijkstra(0) returns {0:0, 1:8, 2:5, 3:9, 4:11,
   5:15}. *)
C12_SampleDistances ==
    (SampleBuilt /\ op = "dijkstra" /\ args = <<0>>) =>
        /\ raised = ""
        /\ ret_dist = (0 :> 0) @@ (1 :> 8) @@ (2 :> 5) @@ (3 :> 9) @@ (4 :> 11) @@ (5 :> 15)

(* dijkstra(0) has been called on the complete sample graph and has answered
   for all six nodes *)
C12_Witness ==
    /\ SampleBuilt
    /\ op = "dijkstra"
    /\ args = <<0>>
    /\ DOMAIN ret_dist = SampleNodes

(* C13: on the sample graph, get_shortest_path(0, 5) returns the path
   [0, 2, 1, 3, 4, 5] and the total distance 15. *)
C13_SamplePath ==
    (SampleBuilt /\ op = "get_shortest_path" /\ args = <<0, 5>>) =>
        /\ raised = ""
        /\ ret_path = <<0, 2, 1, 3, 4, 5>>
        /\ ret_total = 15

(* get_shortest_path(0, 5) has been called on the complete sample graph and
   has returned a path *)
C13_Witness ==
    /\ SampleBuilt
    /\ op = "get_shortest_path"
    /\ args = <<0, 5>>
    /\ Len(ret_path) > 0

(* ======================================================================= *)
(* The graph builder (specification SpecBuild)                             *)
(* ======================================================================= *)

LocationLists == UNION {[1..k -> Points] : k \in 0..MaxPoints}

(* before any call: the empty Graph() *)
InitBuild ==
    /\ V = 0
    /\ adj = EmptyMap
    /\ edges = <<>>
    /\ op = "__init__"
    /\ args = <<>>
    /\ raised = ""
    /\ ret_dist = EmptyMap
    /\ ret_path = <<>>
    /\ ret_total = 0
    /\ enq_log = <<>>
    /\ again = FALSE
    /\ StoreInit

(* a call of build_graph_from_locations; the state holds the graph returned *)
BuildGraph ==
    \E locations \in LocationLists :
        /\ SetGraph(build_graph_from_locations(locations))
        /\ op' = "build_graph_from_locations"
        /\ args' = <<locations>>
        /\ again' = FALSE
        /\ NoReturn
        /\ UNCHANGED store_vars

NextBuild == BuildGraph

SpecBuild == InitBuild /\ [][NextBuild]_vars

(* C5: over N points the builder returns a graph with V = N and N*(N-1)
   directed edges: for each pair of distinct indices exactly one edge (i, j, d)
   and one edge (j, i, d), d being the haversine distance of the two points,
   and no edge from a node to itself. *)
C5_CompleteGraph ==
    (op = "build_graph_from_locations") =>
        LET locations == args[1]
            N == Len(locations)
            d(i, j) == LET lo == IF i < j THEN i ELSE j
                           hi == IF i < j THEN j ELSE i
                       IN  haversine_distance(locations[lo + 1].lat, locations[lo + 1].lon,
                                              locations[hi + 1].lat, locations[hi + 1].lon)
        IN  /\ V = N
            /\ Len(edges) = N * (N - 1)
            /\ \A i \in 0..(N - 1) : \A j \in 0..(N - 1) :
                  IF i = j
                  THEN \A k \in 1..Len(edges) : ~(edges[k][1] = i /\ edges[k][2] = i)
                  ELSE /\ Cardinality({k \in 1..Len(edges) :
                                          edges[k][1] = i /\ edges[k][2] = j}) = 1
                       /\ Count(edges, <<i, j, d(i, j)>>) = 1
                       /\ Count(AdjOf(adj, i), <<j, d(i, j)>>) = 1

(* a graph built over MaxPoints points, two of them a quarter turn apart and
   two of them antipodal *)
C5_Witness ==
    /\ op = "build_graph_from_locations"
    /\ Len(args[1]) = MaxPoints
    /\ \E k \in 1..Len(edges) : edges[k][3] = 10007
    /\ \E k \in 1..Len(edges) : edges[k][3] = 20015

(* C14: called with an empty list of points the builder returns, without an
   error, a graph with V = 0, no adjacency entries and an empty edge list. *)
C14_EmptyListBuildsEmptyGraph ==
    (op = "build_graph_from_locations" /\ Len(args[1]) = 0) =>
        /\ raised = ""
        /\ V = 0
        /\ DOMAIN adj = {}
        /\ edges = <<>>

(* the builder has been called with the empty list and has returned *)
C14_Witness ==
    /\ op = "build_graph_from_locations"
    /\ args = << <<>> >>
    /\ raised = ""

(* ---- the builder called with any coordinates (SpecBuildAny) ---- *)

(* a latitude outside [-90, 90] and a longitude outside [-180, 180] *)
OutOfRangePoints == {[lat |-> 180, lon |-> 0], [lat |-> 0, lon |-> 270]}

AnyPoints == Points \cup OutOfRangePoints

AnyLocationLists == UNION {[1..k -> AnyPoints] : k \in 0..MaxPoints}

InRangePoint(p) == p.lat \in (-90)..90 /\ p.lon \in (-180)..180

BuildGraphAny ==
    \E locations \in AnyLocationLists :
        /\ SetGraph(build_graph_from_locations(locations))
        /\ op' = "build_graph_from_locations"
        /\ args' = <<locations>>
        /\ again' = FALSE
        /\ NoReturn
        /\ UNCHANGED store_vars

NextBuildAny == BuildGraphAny

SpecBuildAny == InitBuild /\ [][NextBuildAny]_vars

(* C15: called with an empty point set, or with a point whose latitude is
   outside [-90, 90] or whose longitude is outside [-180, 180], the builder
   ends in an error and returns no graph. *)
C15_InvalidInputRejected ==
    (/\ op = "build_graph_from_locations"
     /\ \/ Len(args[1]) = 0
        \/ \E k \in 1..Len(args[1]) : ~InRangePoint(args[1][k]))
        => raised /= ""

(* ======================================================================= *)
(* The optimization job contract (specification SpecJob)                   *)
(*                                                                         *)
(* The declarations are OptimizationRequest / OptimizationResult           *)
(* (api/schemas.py) and the table OptimizationJob (database/models.py).    *)
(* The code that creates a job and the engine that runs it are not among   *)
(* the sources; their steps follow sections 3, 4.6, 5 and 7 of the         *)
(* specification.                                                          *)
(* ======================================================================= *)

MaxJobs == 2
MaxReqVehicles == 2

(* the part of the state the job layer never touches *)
graph_vars == <<V, adj, edges, op, args, raised, ret_dist, ret_path, ret_total, enq_log, again>>

(* OptimizationRequest.optimization_type *)
ObjectiveTags == {"minimize_distance", "minimize_time", "balance_load"}

(* OptimizationRequest: the number of vehicle ids listed, the objective, and
   whether some destination carries a time window *)
OptimizationRequests ==
    [vehicles : 1..MaxReqVehicles, optimization_type : ObjectiveTags, time_windows : BOOLEAN]

(* OptimizationJob.status *)
JobStatuses == {"pending", "running", "completed", "failed"}

(* Column(String, default="pending") with the default mistyped as "running" *)
JobDefaultStatus_running == "running"

(* Column(String, default="pending") *)
JobDefaultStatus == "pending"

(* a nullable column holding NULL *)
Null == "NULL"

(* the engine taking every request for one it can serve *)
Supported_any(req) == TRUE

(* what the engine can serve: single-vehicle greedy sequencing without time
   windows; load balancing is not implemented *)
Supported(req) ==
    /\ req.vehicles = 1
    /\ ~req.time_windows
    /\ req.optimization_type /= "balance_load"

(* the row the API stores when a request arrives *)
NewJob(req) ==
    [parameters |-> req, status |-> JobDefaultStatus, result |-> Null, error_message |-> Null]

(* the ways a run of a supported request can end: a route, no route
   (unreachable target), or the time budget exceeded *)
RunOutcomes == {"route", "unreachable", "timeout"}

(* the row after the engine has returned with the given outcome *)
EngineResult(job, outcome) ==
    IF ~Supported(job.parameters)
    THEN [job EXCEPT !.status = "failed", !.error_message = "unsupported"]
    ELSE IF outcome = "route"
    THEN [job EXCEPT !.status = "completed", !.result = "vehicle_routes"]
    ELSE [job EXCEPT !.status = "failed", !.error_message = outcome]

InitJob ==
    /\ V = 0
    /\ adj = EmptyMap
    /\ edges = <<>>
    /\ op = "__init__"
    /\ args = <<>>
    /\ raised = ""
    /\ ret_dist = EmptyMap
    /\ ret_path = <<>>
    /\ ret_total = 0
    /\ enq_log = <<>>
    /\ again = FALSE
    /\ StoreInit

(* a request arrives: the API creates the job *)
SubmitJob ==
    /\ Cardinality(DOMAIN jobs) < MaxJobs
    /\ \E req \in OptimizationRequests :
           jobs' = jobs @@ ((Cardinality(DOMAIN jobs) + 1) :> NewJob(req))
    /\ UNCHANGED <<vehicles, telemetry, routes, resp, removed, run>>
    /\ UNCHANGED graph_vars

(* the engine accepts a pending job *)
AcceptJob ==
    /\ \E j \in DOMAIN jobs :
           /\ jobs[j].status = "pending"
           /\ jobs' = [jobs EXCEPT ![j].status = "running"]
    /\ UNCHANGED <<vehicles, telemetry, routes, resp, removed, run>>
    /\ UNCHANGED graph_vars

(* the engine returns from a running job *)
ReturnJob ==
    /\ \E j \in DOMAIN jobs, outcome \in RunOutcomes :
           /\ jobs[j].status = "running"
           /\ jobs' = [jobs EXCEPT ![j] = EngineResult(@, outcome)]
    /\ UNCHANGED <<vehicles, telemetry, routes, resp, removed, run>>
    /\ UNCHANGED graph_vars

NextJob ==
    \/ SubmitJob
    \/ AcceptJob
    \/ ReturnJob

SpecJob == InitJob /\ [][NextJob]_vars

(* the request asks for more than single-vehicle greedy sequencing, or for an
   objective the engine cannot fulfil *)
NeedsMore(req) ==
    \/ req.vehicles > 1
    \/ req.time_windows
    \/ req.optimization_type = "balance_load"

(* C16: a job whose request needs more than single-vehicle greedy sequencing,
   or an objective the engine cannot fulfil, never is completed and never
   carries a route result; once the engine has returned it is failed with an
   error message. *)
C16_UnsupportedFails ==
    \A j \in DOMAIN jobs :
        NeedsMore(jobs[j].parameters) =>
            /\ jobs[j].status /= "completed"
            /\ jobs[j].result = Null
            /\ jobs[j].status \notin {"pending", "running"} =>
                   (jobs[j].status = "failed" /\ jobs[j].error_message \notin {Null, ""})

(* the engine has returned from a two-vehicle job and from a single-vehicle
   job with time windows *)
C16_Witness ==
    \E j \in DOMAIN jobs, k \in DOMAIN jobs :
        /\ jobs[j].parameters.vehicles > 1
        /\ jobs[j].status = "failed"
        /\ jobs[k].parameters.vehicles = 1
        /\ jobs[k].parameters.time_windows
        /\ jobs[k].status = "failed"

C17_Step ==
    \A j \in DOMAIN jobs' :
        LET b == jobs'[j]
        IN  /\ b.status \in JobStatuses
            /\ (b.status = "completed") => (b.result /= Null)
            /\ (b.status = "failed") => (b.error_message \notin {Null, ""})
            /\ IF j \notin DOMAIN jobs
               THEN b.status = "pending"
               ELSE LET a == jobs[j]
                    IN  \/ b = a
                        \/ a.status = "pending" /\ b.status = "running"
                        \/ a.status = "running" /\ b.status \in {"completed", "failed"}

(* C17: every job is created pending, its status is one of pending, running,
   completed, failed, it becomes completed or failed only from running, a
   completed job carries a result and a failed job an error message, and a
   completed or failed job never changes again. *)
C17_JobLifecycle == [][C17_Step]_vars

(* one job has completed with a result and another has failed *)
C17_Witness ==
    \E j \in DOMAIN jobs, k \in DOMAIN jobs :
        /\ jobs[j].status = "completed"
        /\ jobs[j].result /= Null
        /\ jobs[k].status = "failed"

(* ======================================================================= *)
(* The HTTP handlers of api/routers (specification SpecApi)                *)
(*                                                                         *)
(* A handler runs from its query to its commit without yielding, so each   *)
(* request is one step.  Timestamps and the autoincrement keys of          *)
(* telemetry and routes are left out: rows are told apart by their place   *)
(* in the table.                                                           *)
(* ======================================================================= *)

MaxRecords == 2
MaxRoutes == 2
MaxBatch == 2

VehicleIds == {"V001", "V002"}
VehicleTypes == {"truck"}
Capacities == {1000}
ApiLats == {37, 38}
ApiLons == {-122}
Speeds == {5, 6}
FuelLevels == {75}

(* VehicleCreate *)
VehicleCreates ==
    [vehicle_id : VehicleIds, vehicle_type : VehicleTypes, capacity : Capacities,
     current_lat : ApiLats, current_lon : ApiLons]

(* VehicleUpdate after model_dump(exclude_unset=True): the fields that were
   sent, here none, the latitude, the status, or both *)
VehicleUpdates ==
    {EmptyMap} \cup [current_lat : ApiLats] \cup [status : {"maintenance"}]
        \cup [current_lat : ApiLats, status : {"maintenance"}]

(* TelemetryCreate *)
TelemetryCreates ==
    [vehicle_id : VehicleIds, latitude : ApiLats, longitude : ApiLons,
     speed : Speeds, fuel_level : FuelLevels]

(* the request bodies of /telemetry/batch *)
TelemetryBatches == UNION {[1..k -> TelemetryCreates] : k \in 0..MaxBatch}

(* Column(String, default="idle") *)
VehicleDefaultStatus == "idle"

(* the database as the handlers see it *)
DB == [vehicles |-> vehicles, telemetry |-> telemetry, routes |-> routes]

(* db.query(VehicleModel).filter(VehicleModel.vehicle_id == id) *)
VehiclesWithId(db, id) == {v \in db.vehicles : v.vehicle_id = id}

(* a response with a JSON body; raise HTTPException(status_code, detail) *)
Answer(code, body) == [code |-> code, detail |-> <<>>, body |-> <<body>>]
NoContent(code) == [code |-> code, detail |-> <<>>, body |-> <<>>]
HTTPException(code, detail) == [code |-> code, detail |-> detail, body |-> <<>>]

(* the VehicleModel row built from vehicle.model_dump(), once flushed: status
   takes its default *)
NewVehicle(vehicle) ==
    [vehicle_id |-> vehicle.vehicle_id, vehicle_type |-> vehicle.vehicle_type,
     capacity |-> vehicle.capacity, current_lat |-> vehicle.current_lat,
     current_lon |-> vehicle.current_lon, status |-> VehicleDefaultStatus]

(* create_vehicle without the lookup of lines 37-45 *)
create_vehicle_no_check(db, vehicle) ==
    [db |-> [db EXCEPT !.vehicles = @ \cup {NewVehicle(vehicle)}],
     resp |-> Answer(201, NewVehicle(vehicle))]

(* create_vehicle *)
create_vehicle(db, vehicle) ==
    IF VehiclesWithId(db, vehicle.vehicle_id) /= {}
    THEN [db |-> db,
          resp |-> HTTPException(400, <<"Vehicle with ID ", vehicle.vehicle_id,
                                        " already exists">>)]
    ELSE [db |-> [db EXCEPT !.vehicles = @ \cup {NewVehicle(vehicle)}],
          resp |-> Answer(201, NewVehicle(vehicle))]

(* for key, value in update_data.items(): setattr(db_vehicle, key, value) *)
SetAttrs(row, update_data) ==
    [key \in DOMAIN row |->
        IF key \in DOMAIN update_data THEN update_data[key] ELSE row[key]]

(* update_vehicle *)
update_vehicle(db, vehicle_id, vehicle_update) ==
    IF VehiclesWithId(db, vehicle_id) = {}
    THEN [db |-> db, resp |-> HTTPException(404, <<"Vehicle ", vehicle_id, " not found">>)]
    ELSE LET db_vehicle == CHOOSE v \in VehiclesWithId(db, vehicle_id) : TRUE
             updated == SetAttrs(db_vehicle, vehicle_update)
         IN  [db |-> [db EXCEPT !.vehicles = (@ \ {db_vehicle}) \cup {updated}],
              resp |-> Answer(200, updated)]

(* the rows of a table that do not belong to the vehicle *)
RowsOfOthers(rows, vehicle_id) ==
    LET Other(r) == r.vehicle_id /= vehicle_id
    IN  SelectSeq(rows, Other)

(* delete_vehicle with the relationships declared without cascade and the
   foreign keys not enforced: only the vehicle row goes *)
delete_vehicle_no_cascade(db, vehicle_id) ==
    IF VehiclesWithId(db, vehicle_id) = {}
    THEN [db |-> db, resp |-> HTTPException(404, <<"Vehicle ", vehicle_id, " not found">>)]
    ELSE LET vehicle == CHOOSE v \in VehiclesWithId(db, vehicle_id) : TRUE
         IN  [db |-> [db EXCEPT !.vehicles = @ \ {vehicle}],
              resp |-> NoContent(204)]

(* delete_vehicle: db.delete(vehicle) also deletes vehicle.telemetry_records
   and vehicle.routes (cascade="all, delete-orphan") *)
delete_vehicle(db, vehicle_id) ==
    IF VehiclesWithId(db, vehicle_id) = {}
    THEN [db |-> db, resp |-> HTTPException(404, <<"Vehicle ", vehicle_id, " not found">>)]
    ELSE LET vehicle == CHOOSE v \in VehiclesWithId(db, vehicle_id) : TRUE
         IN  [db |-> [vehicles |-> db.vehicles \ {vehicle},
                      telemetry |-> RowsOfOthers(db.telemetry, vehicle_id),
                      routes |-> RowsOfOthers(db.routes, vehicle_id)],
              resp |-> NoContent(204)]

(* the TelemetryModel row built from telemetry.model_dump() *)
NewTelemetry(t) ==
    [vehicle_id |-> t.vehicle_id, latitude |-> t.latitude, longitude |-> t.longitude,
     speed |-> t.speed, fuel_level |-> t.fuel_level]

(* ingest_telemetry without the lookup of lines 38-46: the record is stored
   whether or not the vehicle exists *)
ingest_telemetry_no_check(db, t) ==
    [db |-> [db EXCEPT !.telemetry = Append(@, NewTelemetry(t))],
     resp |-> Answer(201, NewTelemetry(t))]

(* ingest_telemetry with line 54 testing speed >= 5 *)
ingest_telemetry_ge(db, t) ==
    IF VehiclesWithId(db, t.vehicle_id) = {}
    THEN [db |-> db,
          resp |-> HTTPException(404, <<"Vehicle ", t.vehicle_id,
                                        " not found. Please register the vehicle first.">>)]
    ELSE LET vehicle == CHOOSE v \in VehiclesWithId(db, t.vehicle_id) : TRUE
             moved == [vehicle EXCEPT !.current_lat = t.latitude,
                                      !.current_lon = t.longitude,
                                      !.status = IF t.speed >= 5 THEN "in_transit" ELSE "idle"]
         IN  [db |-> [db EXCEPT !.telemetry = Append(@, NewTelemetry(t)),
                                !.vehicles = (@ \ {vehicle}) \cup {moved}],
              resp |-> Answer(201, NewTelemetry(t))]

(* ingest_telemetry *)
ingest_telemetry(db, t) ==
    IF VehiclesWithId(db, t.vehicle_id) = {}
    THEN [db |-> db,
          resp |-> HTTPException(404, <<"Vehicle ", t.vehicle_id,
                                        " not found. Please register the vehicle first.">>)]
    ELSE LET vehicle == CHOOSE v \in VehiclesWithId(db, t.vehicle_id) : TRUE
             moved == [vehicle EXCEPT !.current_lat = t.latitude,
                                      !.current_lon = t.longitude,
                                      !.status = IF t.speed > 5 THEN "in_transit" ELSE "idle"]
         IN  [db |-> [db EXCEPT !.telemetry = Append(@, NewTelemetry(t)),
                                !.vehicles = (@ \ {vehicle}) \cup {moved}],
              resp |-> Answer(201, NewTelemetry(t))]

(* lines 76-89 without the test of line 82: every entry is stored *)
RECURSIVE batch_loop_no_check(_, _, _)
batch_loop_no_check(st, telemetry_list, k) ==
    IF k > Len(telemetry_list) THEN st
    ELSE LET t == telemetry_list[k]
         IN  batch_loop_no_check(
                 [db |-> [st.db EXCEPT !.telemetry = Append(@, NewTelemetry(t))],
                  created_records |-> Append(st.created_records, t.vehicle_id)],
                 telemetry_list, k + 1)

(* lines 76-89: the loop of ingest_telemetry_batch from the k-th entry on;
   st holds the database and created_records *)
RECURSIVE batch_loop(_, _, _)
batch_loop(st, telemetry_list, k) ==
    IF k > Len(telemetry_list) THEN st
    ELSE LET t == telemetry_list[k]
         IN  IF VehiclesWithId(st.db, t.vehicle_id) = {}
             THEN batch_loop(st, telemetry_list, k + 1)
             ELSE LET vehicle == CHOOSE v \in VehiclesWithId(st.db, t.vehicle_id) : TRUE
                      moved == [vehicle EXCEPT !.current_lat = t.latitude,
                                               !.current_lon = t.longitude]
                  IN  batch_loop(
                          [db |-> [st.db EXCEPT !.telemetry = Append(@, NewTelemetry(t)),
                                                !.vehicles = (@ \ {vehicle}) \cup {moved}],
                           created_records |-> Append(st.created_records, t.vehicle_id)],
                          telemetry_list, k + 1)

(* ingest_telemetry_batch *)
ingest_telemetry_batch(db, telemetry_list) ==
    LET fin == batch_loop([db |-> db, created_records |-> <<>>], telemetry_list, 1)
    IN  [db |-> fin.db,
         resp |-> Answer(201, [records_created |-> Len(fin.created_records),
                               vehicle_ids |-> fin.created_records])]

(* delete_vehicle_telemetry *)
delete_vehicle_telemetry(db, vehicle_id) ==
    LET kept == RowsOfOthers(db.telemetry, vehicle_id)
        deleted_count == Len(db.telemetry) - Len(kept)
    IN  [db |-> [db EXCEPT !.telemetry = kept],
         resp |-> IF deleted_count = 0
                  THEN HTTPException(404, <<"No telemetry found for vehicle ", vehicle_id>>)
                  ELSE Answer(200, [deleted |-> deleted_count, vehicle_id |-> vehicle_id])]

InitApi ==
    /\ V = 0
    /\ adj = EmptyMap
    /\ edges = <<>>
    /\ op = "__init__"
    /\ args = <<>>
    /\ raised = ""
    /\ ret_dist = EmptyMap
    /\ ret_path = <<>>
    /\ ret_total = 0
    /\ enq_log = <<>>
    /\ again = FALSE
    /\ StoreInit

(* the graph and the job table are not touched by a handler *)
ApiFrame ==
    UNCHANGED <<V, adj, edges, raised, ret_dist, ret_path, ret_total, enq_log, again, jobs, run>>

(* the database and the response after a handler has returned *)
Commit(r) ==
    /\ vehicles' = r.db.vehicles
    /\ telemetry' = r.db.telemetry
    /\ routes' = r.db.routes
    /\ resp' = r.resp
    /\ removed' = <<Max(0, Len(telemetry) - Len(r.db.telemetry)),
                    Max(0, Len(routes) - Len(r.db.routes))>>
    /\ ApiFrame

CreateVehicle ==
    \E vehicle \in VehicleCreates :
        /\ op' = "create_vehicle"
        /\ args' = <<vehicle>>
        /\ Commit(create_vehicle(DB, vehicle))

UpdateVehicle ==
    \E vehicle_id \in VehicleIds, vehicle_update \in VehicleUpdates :
        /\ op' = "update_vehicle"
        /\ args' = <<vehicle_id, vehicle_update>>
        /\ Commit(update_vehicle(DB, vehicle_id, vehicle_update))

DeleteVehicle ==
    \E vehicle_id \in VehicleIds :
        /\ op' = "delete_vehicle"
        /\ args' = <<vehicle_id>>
        /\ Commit(delete_vehicle(DB, vehicle_id))

IngestTelemetry ==
    /\ Len(telemetry) < MaxRecords
    /\ \E t \in TelemetryCreates :
           /\ op' = "ingest_telemetry"
           /\ args' = <<t>>
           /\ Commit(ingest_telemetry(DB, t))

IngestTelemetryBatch ==
    \E telemetry_list \in TelemetryBatches :
        /\ Len(telemetry) + Len(telemetry_list) <= MaxRecords
        /\ op' = "ingest_telemetry_batch"
        /\ args' = <<telemetry_list>>
        /\ Commit(ingest_telemetry_batch(DB, telemetry_list))

DeleteVehicleTelemetry ==
    \E vehicle_id \in VehicleIds :
        /\ op' = "delete_vehicle_telemetry"
        /\ args' = <<vehicle_id>>
        /\ Commit(delete_vehicle_telemetry(DB, vehicle_id))

(* a route is stored for a registered vehicle (the routes table has no
   handler among the routers; its rows come from the optimization layer) *)
StoreRoute ==
    /\ Len(routes) < MaxRoutes
    /\ \E v \in vehicles :
           /\ routes' = Append(routes, [vehicle_id |-> v.vehicle_id, status |-> "planned"])
           /\ op' = "store_route"
           /\ args' = <<v.vehicle_id>>
           /\ resp' = NoResponse
           /\ removed' = <<0, 0>>
           /\ UNCHANGED <<vehicles, telemetry>>
           /\ ApiFrame

NextApi ==
    \/ CreateVehicle
    \/ UpdateVehicle
    \/ DeleteVehicle
    \/ IngestTelemetry
    \/ IngestTelemetryBatch
    \/ DeleteVehicleTelemetry
    \/ StoreRoute

SpecApi == InitApi /\ [][NextApi]_vars

Registered(id) == \E v \in vehicles : v.vehicle_id = id

(* the rows of a table that belong to the vehicle, in table order *)
RowsOf(rows, id) ==
    LET Mine(r) == r.vehicle_id = id
    IN  SelectSeq(rows, Mine)

C18_Step ==
    /\ \A v \in vehicles' : \A w \in vehicles' : (v.vehicle_id = w.vehicle_id) => (v = w)
    /\ (op' = "create_vehicle") =>
          LET vehicle == args'[1]
          IN  IF Registered(vehicle.vehicle_id)
              THEN /\ resp'.code = 400
                   /\ \E k \in 1..Len(resp'.detail) : resp'.detail[k] = " already exists"
                   /\ vehicles' = vehicles
              ELSE /\ resp'.code = 201
                   /\ \E v \in vehicles' :
                         /\ vehicles' = vehicles \cup {v}
                         /\ v.vehicle_id = vehicle.vehicle_id
                         /\ v.status = "idle"
                         /\ \A key \in DOMAIN vehicle : v[key] = vehicle[key]
                         /\ resp'.body = <<v>>

(* C18: create_vehicle with a registered vehicle_id answers 400 with a detail
   containing 'already exists' and leaves the stored vehicles as they are;
   with a new id it answers 201 and stores the vehicle with status 'idle';
   after every request no two stored vehicles share a vehicle_id. *)
C18_VehicleIdsUnique == [][C18_Step]_vars

(* a create_vehicle was refused for the id of a stored vehicle whose position
   and status differ from the submitted ones, a second vehicle being stored *)
C18_Witness ==
    /\ op = "create_vehicle"
    /\ resp.code = 400
    /\ Cardinality(vehicles) = 2
    /\ \E v \in vehicles :
          /\ v.vehicle_id = args[1].vehicle_id
          /\ v.current_lat /= args[1].current_lat
          /\ v.status = "maintenance"

C19_Step ==
    (op' = "ingest_telemetry") =>
        LET t == args'[1]
            n == Len(telemetry)
        IN  IF ~Registered(t.vehicle_id)
            THEN /\ resp'.code = 404
                 /\ telemetry' = telemetry
                 /\ vehicles' = vehicles
            ELSE /\ resp'.code = 201
                 /\ Len(telemetry') = n + 1
                 /\ SubSeq(telemetry', 1, n) = telemetry
                 /\ telemetry'[n + 1].vehicle_id = t.vehicle_id
                 /\ telemetry'[n + 1].speed = t.speed
                 /\ resp'.body = <<telemetry'[n + 1]>>

(* C19: ingest_telemetry for an unregistered vehicle_id answers 404, stores no
   record and modifies no vehicle; for a registered vehicle it answers 201 and
   stores exactly one new record with the submitted vehicle_id and speed. *)
C19_IngestChecksVehicle == [][C19_Step]_vars

(* an ingest_telemetry was refused for an unregistered vehicle while another
   vehicle is registered, is in transit and has a stored record *)
C19_Witness ==
    /\ op = "ingest_telemetry"
    /\ resp.code = 404
    /\ ~Registered(args[1].vehicle_id)
    /\ Len(telemetry) > 0
    /\ \E v \in vehicles : v.status = "in_transit"

C20_Step ==
    (op' = "delete_vehicle") =>
        LET id == args'[1]
        IN  IF Registered(id)
            THEN /\ resp'.code = 204
                 /\ vehicles' = {v \in vehicles : v.vehicle_id /= id}
                 /\ RowsOf(telemetry', id) = <<>>
                 /\ RowsOf(routes', id) = <<>>
                 /\ \A o \in VehicleIds \ {id} :
                       /\ RowsOf(telemetry', o) = RowsOf(telemetry, o)
                       /\ RowsOf(routes', o) = RowsOf(routes, o)
            ELSE /\ resp'.code = 404
                 /\ vehicles' = vehicles
                 /\ telemetry' = telemetry
                 /\ routes' = routes

(* C20: delete_vehicle on a registered vehicle removes the vehicle and every
   telemetry record and route of that vehicle and leaves the rows of all other
   vehicles as they are; on an unregistered id it answers 404 and changes
   nothing. *)
C20_DeleteCascades == [][C20_Step]_vars

(* a vehicle has been deleted together with a telemetry record and a route of
   its own, while the other vehicle keeps its telemetry record and its route *)
C20_Witness ==
    /\ op = "delete_vehicle"
    /\ resp.code = 204
    /\ removed[1] > 0
    /\ removed[2] > 0
    /\ Cardinality(vehicles) = 1
    /\ ~Registered(args[1])
    /\ Len(telemetry) > 0
    /\ Len(routes) > 0

(* the stored row of the vehicle *)
VehicleRow(vs, id) == CHOOSE v \in vs : v.vehicle_id = id

(* the entries of a telemetry list that are for the vehicle *)
EntriesOf(telemetry_list, id) == RowsOf(telemetry_list, id)

Last(q) == q[Len(q)]

C24_Step ==
    /\ (op' = "ingest_telemetry" /\ resp'.code = 201) =>
          LET t == args'[1]
              before == VehicleRow(vehicles, t.vehicle_id)
              after == VehicleRow(vehicles', t.vehicle_id)
          IN  /\ after.current_lat = t.latitude
              /\ after.current_lon = t.longitude
              /\ after.status = IF t.speed > 5 THEN "in_transit" ELSE "idle"
              /\ after.current_lat = Last(RowsOf(telemetry', t.vehicle_id)).latitude
              /\ after.current_lon = Last(RowsOf(telemetry', t.vehicle_id)).longitude
              /\ vehicles' \ {after} = vehicles \ {before}
    /\ (op' = "ingest_telemetry_batch") =>
          /\ {v.vehicle_id : v \in vehicles'} = {v.vehicle_id : v \in vehicles}
          /\ \A v \in vehicles :
                LET after == VehicleRow(vehicles', v.vehicle_id)
                    mine == EntriesOf(args'[1], v.vehicle_id)
                IN  IF mine = <<>>
                    THEN after = v
                    ELSE /\ after.status = v.status
                         /\ after.current_lat = Last(mine).latitude
                         /\ after.current_lon = Last(mine).longitude

(* C24: a successful ingest_telemetry sets the vehicle's position to the
   submitted one, which is that of its most recent record, and its status to
   'in_transit' when the speed is greater than 5 and to 'idle' otherwise,
   whatever it was before; ingest_telemetry_batch sets the position of each
   known vehicle it has an entry for and changes no vehicle's status. *)
C24_IngestMovesVehicle == [][C24_Step]_vars

(* a second ingest for a vehicle, at speed 5 and another latitude than the
   first record's, which was at a speed above 5: the vehicle is idle at the
   new position *)
C24_Witness ==
    /\ op = "ingest_telemetry"
    /\ resp.code = 201
    /\ Len(telemetry) = 2
    /\ telemetry[1].vehicle_id = args[1].vehicle_id
    /\ telemetry[1].speed > 5
    /\ telemetry[1].latitude /= args[1].latitude
    /\ args[1].speed = 5
    /\ \E v \in vehicles :
          /\ v.vehicle_id = args[1].vehicle_id
          /\ v.status = "idle"
          /\ v.current_lat = args[1].latitude

(* the entries of a telemetry list whose vehicle is registered, as rows *)
RECURSIVE KnownEntries(_, _)
KnownEntries(telemetry_list, k) ==
    IF k > Len(telemetry_list) THEN <<>>
    ELSE IF Registered(telemetry_list[k].vehicle_id)
    THEN <<telemetry_list[k]>> \o KnownEntries(telemetry_list, k + 1)
    ELSE KnownEntries(telemetry_list, k + 1)

C25_Step ==
    /\ \A k \in 1..Len(telemetry') :
          \E v \in vehicles' : v.vehicle_id = telemetry'[k].vehicle_id
    /\ (op' = "ingest_telemetry_batch") =>
          LET known == KnownEntries(args'[1], 1)
          IN  /\ resp'.code = 201
              /\ telemetry' = telemetry \o known
              /\ resp'.body[1].records_created = Len(known)
              /\ resp'.body[1].records_created = Len(telemetry') - Len(telemetry)

(* C25: after every request each stored telemetry record refers to a
   registered vehicle; ingest_telemetry_batch stores a record for exactly the
   entries whose vehicle is registered, skips the others without an error and
   reports records_created equal to the number of records it stored. *)
C25_TelemetryRefersToVehicle == [][C25_Step]_vars

(* a batch of two entries of which one was for an unregistered vehicle: one
   record stored, one reported *)
C25_Witness ==
    /\ op = "ingest_telemetry_batch"
    /\ Len(args[1]) = 2
    /\ \E k \in 1..2 : ~Registered(args[1][k].vehicle_id)
    /\ resp.body[1].records_created = 1
    /\ Len(telemetry) > 0

(* ======================================================================= *)
(* A solve taken one loop iteration at a time (specification SpecRun)      *)
(*                                                                         *)
(* The graph is built by add_edge calls, then one call of dijkstra or      *)
(* get_shortest_path runs: a step is one iteration of its while loop, the  *)
(* last step the return.  heappop returns an entry of least distance; which *)
(* of several entries of equal distance it returns is left open here (the  *)
(* heap compares the node ids next, so the code's choice is one of them).  *)
(* ======================================================================= *)

(* every entry of the queue, in place of one of least distance *)
PopChoices_any(pq) == 1..Len(pq)

(* the oldest entry of the queue, in place of one of least distance *)
PopChoices_first(pq) == {1}

(* the indices heappop may return: the entries of least distance *)
PopChoices(pq) == {i \in 1..Len(pq) : \A j \in 1..Len(pq) : pq[i][1] <= pq[j][1]}

(* the graph is complete before a solve runs on it *)
RunAddEdge ==
    /\ run.kind = "idle"
    /\ AddEdge

RunFrame ==
    UNCHANGED <<V, edges, enq_log, again, vehicles, telemetry, routes, resp, jobs, removed>>

(* the call of dijkstra(source) up to the while loop *)
StartDijkstra ==
    /\ run.kind = "idle"
    /\ \E s \in 0..(V - 1) :
          /\ run' = [kind |-> "dijkstra", pc |-> "loop", source |-> s, target |-> None,
                     st |-> dijkstra_start(G, s), pops |-> <<>>, last |-> <<>>, n |-> 0,
                     adj0 |-> adj]
          /\ op' = "dijkstra"
          /\ args' = <<s>>
    /\ UNCHANGED <<adj, raised, ret_dist, ret_path, ret_total>>
    /\ RunFrame

(* the call of get_shortest_path(source, target) up to the while loop *)
StartGetShortestPath ==
    /\ run.kind = "idle"
    /\ \E s \in 0..(V - 1), t \in 0..(V - 1) :
          /\ run' = [kind |-> "get_shortest_path", pc |-> "loop", source |-> s, target |-> t,
                     st |-> gsp_start(G, s), pops |-> <<>>, last |-> <<>>, n |-> 0,
                     adj0 |-> adj]
          /\ op' = "get_shortest_path"
          /\ args' = <<s, t>>
    /\ UNCHANGED <<adj, raised, ret_dist, ret_path, ret_total>>
    /\ RunFrame

(* the run after an iteration that popped entry e and left the locals st1;
   pops is history: the entries popped for a node not visited before, last
   is history: the entry just popped, n is history: the iterations so far
   (adj0 is history: the adjacency dict when the call began) *)
Popped(e, st1) ==
    [run EXCEPT !.st = st1,
                !.last = e,
                !.n = @ + 1,
                !.pops = IF e[2] \in run.st.visited THEN @ ELSE Append(@, e)]

(* one iteration of the while loop of dijkstra *)
DijkstraStep ==
    /\ run.kind = "dijkstra"
    /\ run.pc = "loop"
    /\ run.st.pq /= <<>>
    /\ \E i \in PopChoices(run.st.pq) :
          LET st1 == dijkstra_visit(run.st, i)
          IN  /\ run' = Popped(run.st.pq[i], st1)
              /\ adj' = st1.adj
    /\ UNCHANGED <<op, args, raised, ret_dist, ret_path, ret_total>>
    /\ RunFrame

(* line 73: return dist *)
DijkstraReturn ==
    /\ run.kind = "dijkstra"
    /\ run.pc = "loop"
    /\ run.st.pq = <<>>
    /\ run' = [run EXCEPT !.pc = "done"]
    /\ ret_dist' = run.st.dist
    /\ raised' = ""
    /\ UNCHANGED <<adj, op, args, ret_path, ret_total>>
    /\ RunFrame

(* one iteration of the while loop of get_shortest_path *)
GetShortestPathStep ==
    /\ run.kind = "get_shortest_path"
    /\ run.pc = "loop"
    /\ run.st.pq /= <<>>
    /\ ~run.st.done
    /\ \E i \in PopChoices(run.st.pq) :
          LET st1 == gsp_visit(run.st, run.target, i)
          IN  /\ run' = Popped(run.st.pq[i], st1)
              /\ adj' = st1.adj
    /\ UNCHANGED <<op, args, raised, ret_dist, ret_path, ret_total>>
    /\ RunFrame

(* lines 110-121: the reconstruction and the return *)
GetShortestPathReturn ==
    /\ run.kind = "get_shortest_path"
    /\ run.pc = "loop"
    /\ run.st.pq = <<>> \/ run.st.done
    /\ LET r == gsp_return(run.st, run.target)
       IN  /\ run' = [run EXCEPT !.pc = "done"]
           /\ raised' = r.raised
           /\ ret_path' = r.path
           /\ ret_total' = r.total
    /\ UNCHANGED <<adj, op, args, ret_dist>>
    /\ RunFrame

NextRun ==
    \/ RunAddEdge
    \/ StartDijkstra
    \/ DijkstraStep
    \/ DijkstraReturn
    \/ StartGetShortestPath
    \/ GetShortestPathStep
    \/ GetShortestPathReturn

SpecRun == Init /\ [][NextRun]_vars

(* the interpreter runs the statement it is at: a loop iteration or a return
   that is possible is eventually taken *)
SpecRunFair ==
    /\ SpecRun
    /\ WF_vars(DijkstraStep)
    /\ WF_vars(DijkstraReturn)
    /\ WF_vars(GetShortestPathStep)
    /\ WF_vars(GetShortestPathReturn)

InDijkstra == run.kind = "dijkstra"
InGetShortestPath == run.kind = "get_shortest_path"

RECURSIVE SumLen(_, _)
SumLen(a, S) ==
    IF S = {} THEN 0
    ELSE LET x == CHOOSE y \in S : TRUE
         IN  Len(a[x]) + SumLen(a, S \ {x})

(* the adjacency entries of the nodes relaxed so far *)
ScannedEdges(st) == SumLen(st.adj, {st.scanned[k] : k \in 1..Len(st.scanned)})

(* during a run of dijkstra: no node is relaxed twice, the relaxed nodes are
   the visited ones, and iterations done plus entries waiting never exceed
   one plus the adjacency entries of the relaxed nodes *)
C21_Once ==
    InDijkstra =>
        /\ NoRepeat(run.st.scanned)
        /\ {run.st.scanned[k] : k \in 1..Len(run.st.scanned)} = run.st.visited
        /\ Len(run.st.scanned) <= V
        /\ run.n + Len(run.st.pq) <= 1 + ScannedEdges(run.st)
        /\ run.n + Len(run.st.pq) <= 1 + Len(edges)

(* an iteration that pops an entry of an already-visited node removes that
   entry and changes nothing else *)
C21_Skip ==
    (InDijkstra /\ run'.n = run.n + 1 /\ run'.last[2] \in run.st.visited) =>
        /\ run'.st.dist = run.st.dist
        /\ run'.st.visited = run.st.visited
        /\ run'.st.scanned = run.st.scanned
        /\ run'.st.adj = run.st.adj
        /\ Len(run'.st.pq) = Len(run.st.pq) - 1

(* C21: a run of dijkstra reaches its return (the queue empties), each node
   is marked visited and relaxed at most once, and an entry popped for an
   already-visited node is dropped without relaxing an edge *)
C21_DijkstraTerminates ==
    /\ []C21_Once
    /\ [][C21_Skip]_vars
    /\ (InDijkstra ~> (InDijkstra /\ run.pc = "done" /\ run.st.pq = <<>>))

(* a finished run of dijkstra in which a stale entry was popped: more
   iterations than relaxed nodes *)
C21_Witness ==
    /\ InDijkstra
    /\ run.pc = "done"
    /\ run.n > Len(run.st.scanned)
    /\ Len(run.st.scanned) = 3

InRun == run.kind /= "idle"

(* the nodes whose distance the run has settled: the visited ones, and the
   target once get_shortest_path has popped it *)
Settled(r) ==
    r.st.visited \cup (IF r.kind = "get_shortest_path" /\ r.st.done THEN {r.target} ELSE {})

(* the settled nodes have their least path weight from the source, each
   first-time pop carried that weight as its key, and those keys never go down *)
C22_Final ==
    InRun =>
        /\ \A u \in Settled(run) : run.st.dist[u] = ShortestDist(run.source)[u]
        /\ \A k \in 1..Len(run.pops) :
              /\ run.pops[k][1] = ShortestDist(run.source)[run.pops[k][2]]
              /\ k > 1 => run.pops[k - 1][1] <= run.pops[k][1]
        /\ {run.pops[k][2] : k \in 1..Len(run.pops)} = Settled(run)

(* a step of the run leaves the distance of every settled node as it is *)
C22_Keeps ==
    InRun => \A u \in Settled(run) : run'.st.dist[u] = run.st.dist[u]

(* C22: with weights >= 0, in dijkstra and in get_shortest_path the distance
   of a node is final when the node is first popped: it equals the least path
   weight, no later step lowers it, and the keys of first-time pops are
   non-decreasing *)
C22_PoppedIsFinal ==
    /\ []C22_Final
    /\ [][C22_Keeps]_vars

(* get_shortest_path left its loop by popping the target as third node, at a
   greater distance than the source *)
C22_Witness ==
    /\ InGetShortestPath
    /\ run.pc = "done"
    /\ run.st.done
    /\ Len(run.pops) = 3
    /\ run.pops[3] = <<1, run.target>>
    /\ run.n = 3
    /\ Len(run.st.pq) > 0

(* ======================================================================= *)
(* Solves on graphs wide enough for two lightest paths (specification      *)
(* SpecTie): four nodes, up to four edges, each from a node to a higher one *)
(* ======================================================================= *)

MaxTieNode == 3
MaxTieEdges == 4

TieNodes == 0..MaxTieNode

InitTie ==
    /\ V = MaxTieNode + 1
    /\ adj = EmptyMap
    /\ edges = <<>>
    /\ op = "__init__"
    /\ args = <<>>
    /\ raised = ""
    /\ ret_dist = EmptyMap
    /\ ret_path = <<>>
    /\ ret_total = 0
    /\ enq_log = <<>>
    /\ again = FALSE
    /\ StoreInit

TieAddEdge ==
    /\ run.kind = "idle"
    /\ Len(edges) < MaxTieEdges
    /\ \E u \in TieNodes, v \in TieNodes, w \in Weights :
          /\ u < v
          /\ SetGraph(add_edge(G, u, v, w))
          /\ op' = "add_edge"
          /\ args' = <<u, v, w>>
    /\ again' = FALSE
    /\ NoReturn
    /\ UNCHANGED store_vars

NextTie ==
    \/ TieAddEdge
    \/ StartDijkstra
    \/ DijkstraStep
    \/ DijkstraReturn
    \/ StartGetShortestPath
    \/ GetShortestPathStep
    \/ GetShortestPathReturn

SpecTie == InitTie /\ [][NextTie]_vars

(* the graph as it was when the running call began *)
G0 == GraphOf(V, run.adj0, edges)

(* the node sequence p leads from s to t along edges of total weight equal to
   the least path weight from s to t *)
IsLightest(p, s, t) ==
    /\ Len(p) >= 1
    /\ p[1] = s
    /\ p[Len(p)] = t
    /\ ShortestDist(s)[t] \in WalkWeights(p, 1)

RunDone == InRun /\ run.pc = "done"

(* C23: whichever entry of least distance each pop extracts, dijkstra returns
   the distances, and get_shortest_path the total distance, that the call
   with the heap's own order returns on the same graph and source; the
   returned path differs from that call's path only when both are lightest
   paths, so only when the graph has two lightest paths to the target *)
C23_SameWhateverTie ==
    /\ (RunDone /\ InDijkstra) =>
          /\ raised = ""
          /\ ret_dist = dijkstra(G0, run.source).dist
    /\ (RunDone /\ InGetShortestPath) =>
          LET r == get_shortest_path(G0, run.source, run.target)
          IN  /\ raised = r.raised
              /\ ret_total = r.total
              /\ (ret_path /= r.path) =>
                    /\ IsLightest(ret_path, run.source, run.target)
                    /\ IsLightest(r.path, run.source, run.target)
              /\ (ret_path = <<>>) <=> (r.path = <<>>)

(* get_shortest_path returned a path other than the one the heap's own order
   gives: the pops of two entries of equal distance went the other way *)
C23_Witness ==
    /\ RunDone
    /\ InGetShortestPath
    /\ raised = ""
    /\ ret_path /= get_shortest_path(G0, run.source, run.target).path
    /\ Len(ret_path) = 3
    /\ ret_total = 2

(* the walk of lines 114-118 started at node x on the parent pointers as they
   are now *)
WalkFrom(x) == gsp_walk(run.st.parent, x, <<>>)

(* during get_shortest_path the parent pointers have no cycle, the source has
   no parent, a node has a parent exactly when it is not the source and has a
   finite distance, and the walk from a node of finite distance ends at the
   source after at most V - 1 pointers *)
C26_Forest ==
    InGetShortestPath =>
        /\ run.st.parent[run.source] = None
        /\ \A x \in 0..(V - 1) :
              /\ WalkFrom(x).outcome = "ok"
              /\ (run.st.parent[x] /= None) <=> (x /= run.source /\ run.st.dist[x] < Inf)
              /\ run.st.dist[x] < Inf =>
                    /\ WalkFrom(x).path[Len(WalkFrom(x).path)] = run.source
                    /\ Len(WalkFrom(x).path) - 1 <= V - 1

(* the reconstruction ends: nothing is raised and no node is twice in the
   returned path *)
C26_Returned ==
    (InGetShortestPath /\ RunDone) =>
        /\ raised = ""
        /\ NoRepeat(ret_path)
        /\ Len(ret_path) <= V

(* C26: with weights >= 0, zero-weight edges and cycles included, the parent
   pointers of get_shortest_path form a forest with no cycle throughout the
   loop, parent[source] stays None, every node of finite distance reaches
   the source in at most V - 1 pointers, and so the reconstruction ends with
   a path that repeats no node *)
C26_ParentForest == C26_Forest /\ C26_Returned

(* get_shortest_path returned a path of three nodes along a cycle of
   zero-weight edges through its source *)
C26_Witness ==
    /\ InGetShortestPath
    /\ RunDone
    /\ Len(ret_path) = 3
    /\ ret_total = 0
    /\ <<ret_path[1], ret_path[2], 0>> \in EdgeSet
    /\ <<ret_path[2], ret_path[3], 0>> \in EdgeSet
    /\ <<ret_path[3], ret_path[1], 0>> \in EdgeSet

====
